---- MODULE Spec2Model ----
(***************************************************************************)
(* Model of the WASM-compatible counter storage (src/src/storage/wasm.rs): *)
(* a TTL cache of counters with lazy expiry, the namespace -> limit ->     *)
(* counters index, and the injected clock.  Its values and deltas stay far *)
(* inside the i64 range, so its arithmetic is that of the integers.        *)
(* The batch decision is_limited of the Redis backends                     *)
(* (src/limitador/src/storage/redis/mod.rs) is modelled with integers of   *)
(* Bits bits, whose casts and sums wrap as the code's do.                  *)
(***************************************************************************)
EXTENDS Integers, FiniteSets, Sequences, TLC

\* ------------------------------------------------------------------ bounds
\* The injected clock takes the instants 0..MaxTime.
MaxTime == 2
\* update_counter is called with delta in 1..MaxDelta, is_within_limits with
\* delta in 0..MaxDelta.
MaxDelta == 2
\* In-place decrements are explored down to the stored value -MaxOver.
MaxOver == 1

Deltas == 1 .. MaxDelta
QueryDeltas == 0 .. MaxDelta

\* ------------------------------------------------- limits and counters
\* crate::limit::Limit: namespace, max_value, seconds (window), name.
L1 == [namespace |-> "n1", max_value |-> 2, seconds |-> 1, name |-> "L1"]
L2 == [namespace |-> "n1", max_value |-> 1, seconds |-> 1, name |-> "L2"]
L3 == [namespace |-> "n2", max_value |-> 1, seconds |-> 2, name |-> "L3"]
Limits == {L1, L2, L3}
Namespaces == {"n1", "n2"}

\* crate::counter::Counter: the limit plus the qualifying values.
Counter(l) == [limit |-> l, set_variables |-> "a"]
Counters == {Counter(l) : l \in Limits}
\* The counters the callers of Spec ask about: one in each namespace.
Requested == {Counter(L1), Counter(L3)}

limit(counter) == counter.limit
namespace(counter) == counter.limit.namespace
max_value(counter) == counter.limit.max_value
seconds(counter) == counter.limit.seconds

\* ------------------------------------------------------------- HashMap
EmptyMap == [k \in {} |-> 0]
MapInsert(m, k, v) == [x \in (DOMAIN m) \cup {k} |-> IF x = k THEN v ELSE m[x]]
MapRemove(m, k) == [x \in (DOMAIN m) \ {k} |-> m[x]]
MapRemoveAll(m, ks) == [x \in (DOMAIN m) \ ks |-> m[x]]

\* --------------------------------------------------------------- state
VARIABLES
  limits_for_namespace, \* namespace -> (Limit -> set of Counter)
  counters,             \* Cache.map: Counter -> CacheEntry
  now,                  \* the instant the injected clock returns
  call,                 \* the last Storage call: operation, arguments,
                        \* branch taken, result
  hist                  \* per counter: the deltas applied since update_counter
                        \* created the entry, and the expiry it was created with

vars == <<limits_for_namespace, counters, now, call, hist>>

NoHist == [init |-> FALSE, sum |-> 0, expires_at |-> 0]

\* The shape of the state: the fields of WasmStorage and the clock's reading.
TypeOK ==
  /\ DOMAIN limits_for_namespace \subseteq Namespaces
  /\ \A ns \in DOMAIN limits_for_namespace :
       /\ DOMAIN limits_for_namespace[ns] \subseteq Limits
       /\ \A l \in DOMAIN limits_for_namespace[ns] :
            limits_for_namespace[ns][l] \subseteq Counters
  /\ DOMAIN counters \subseteq Counters
  /\ \A c \in DOMAIN counters :
       /\ counters[c].value \in Int
       /\ counters[c].expires_at \in Nat
  /\ now \in 0 .. MaxTime
  /\ call.ret \in {"Ok", "Ok(true)", "Ok(false)", "panic"}

\* ---------------------------------------------------------- CacheEntry
\* Faulty variant of is_expired: an entry is expired already at expires_at.
is_expired_inclusive(entry, current_time) == current_time >= entry.expires_at

is_expired(entry, current_time) == current_time > entry.expires_at

\* Faulty variant of new_entry: the window is not added to the expiry.
new_entry_no_window(counter, delta, current_time) ==
  [value |-> max_value(counter) - delta, expires_at |-> current_time]

\* The entry update_counter inserts for a missing or expired counter.

new_entry(counter, delta, current_time) ==
  [value |-> max_value(counter) - delta,
   expires_at |-> current_time + seconds(counter)]

\* Faulty variant of decrement: the stored value is floored at 0.
decrement_floored(entry, delta) ==
  [entry EXCEPT !.value = IF @ - delta < 0 THEN 0 ELSE @ - delta]

\* The in-place decrement of a live entry.

decrement(entry, delta) == [entry EXCEPT !.value = @ - delta]

\* Cache::get_all: the entries that are not expired at current_time.
get_all(current_time) ==
  {<<c, counters[c].value, counters[c].expires_at>> :
     c \in {k \in DOMAIN counters : ~is_expired(counters[k], current_time)}}

\* ---------------------------------------------------------- WasmStorage
get_limits(ns) ==
  IF ns \in DOMAIN limits_for_namespace
  THEN DOMAIN limits_for_namespace[ns]
  ELSE {}

\* Faulty variant of get_counters_keys: the namespace filter is left out.
get_counters_keys_any_namespace(ns, t) == {e[1] : e \in get_all(t)}

\* The counters get_counters returns for a namespace when the clock reads t.
get_counters_keys(ns, t) ==
  {e[1] : e \in {x \in get_all(t) : namespace(x[1]) = ns}}

\* The counters delete_counters_in_namespace removes from the cache.
delete_counters_in_namespace(ns) ==
  IF ns \in DOMAIN limits_for_namespace
  THEN UNION {limits_for_namespace[ns][l] : l \in DOMAIN limits_for_namespace[ns]}
  ELSE {}

\* Faulty variant of delete_counters_of_limit: every counter of the limit's
\* namespace is removed.
delete_counters_of_limit_whole_namespace(l) ==
  {c \in DOMAIN counters : namespace(c) = l.namespace}

\* The counters delete_counters_of_limit removes from the cache.

delete_counters_of_limit(l) ==
  IF l.namespace \in DOMAIN limits_for_namespace
  THEN IF l \in DOMAIN limits_for_namespace[l.namespace]
       THEN limits_for_namespace[l.namespace][l]
       ELSE {}
  ELSE {}

\* add_counter_limit_association: the unwrap() fails when the namespace is
\* registered and the counter's limit is not one of its limits.
association_panics(counter) ==
  /\ namespace(counter) \in DOMAIN limits_for_namespace
  /\ limit(counter) \notin DOMAIN limits_for_namespace[namespace(counter)]

\* Faulty variant of add_counter_limit_association: the counter is added to
\* the set of every limit registered in its namespace.
add_counter_limit_association_every_limit(counter) ==
  IF namespace(counter) \in DOMAIN limits_for_namespace
  THEN [limits_for_namespace EXCEPT
          ![namespace(counter)] = [l \in DOMAIN @ |-> @[l] \cup {counter}]]
  ELSE limits_for_namespace

add_counter_limit_association(counter) ==
  IF namespace(counter) \in DOMAIN limits_for_namespace
     /\ limit(counter) \in DOMAIN limits_for_namespace[namespace(counter)]
  THEN [limits_for_namespace EXCEPT
          ![namespace(counter)][limit(counter)] = @ \cup {counter}]
  ELSE limits_for_namespace

\* A panic unwinds out of the store: no further call is made.
Running == call.ret # "panic"

ClearHist(removed) == [c \in Counters |-> IF c \in removed THEN NoHist ELSE hist[c]]

\* Faulty variant of add_limit: a limit that is already registered keeps the
\* counter set it has.
add_limit_keeping(l) ==
  /\ Running
  /\ limits_for_namespace' =
       IF l.namespace \in DOMAIN limits_for_namespace
       THEN IF l \in DOMAIN limits_for_namespace[l.namespace]
            THEN limits_for_namespace
            ELSE [limits_for_namespace EXCEPT
                    ![l.namespace] = MapInsert(@, l, {})]
       ELSE MapInsert(limits_for_namespace, l.namespace, MapInsert(EmptyMap, l, {}))
  /\ call' = [op |-> "add_limit", limit |-> l, ret |-> "Ok"]
  /\ UNCHANGED <<counters, now, hist>>

add_limit(l) ==
  /\ Running
  /\ limits_for_namespace' =
       IF l.namespace \in DOMAIN limits_for_namespace
       THEN [limits_for_namespace EXCEPT
               ![l.namespace] = MapInsert(@, l, {})]
       ELSE MapInsert(limits_for_namespace, l.namespace, MapInsert(EmptyMap, l, {}))
  /\ call' = [op |-> "add_limit", limit |-> l, ret |-> "Ok"]
  /\ UNCHANGED <<counters, now, hist>>

delete_limit(l) ==
  /\ Running
  /\ counters' = MapRemoveAll(counters, delete_counters_of_limit(l))
  /\ hist' = ClearHist(delete_counters_of_limit(l))
  /\ limits_for_namespace' =
       IF l.namespace \in DOMAIN limits_for_namespace
       THEN [limits_for_namespace EXCEPT ![l.namespace] = MapRemove(@, l)]
       ELSE limits_for_namespace
  /\ call' = [op |-> "delete_limit", limit |-> l, ret |-> "Ok"]
  /\ UNCHANGED now

delete_limits(ns) ==
  /\ Running
  /\ counters' = MapRemoveAll(counters, delete_counters_in_namespace(ns))
  /\ hist' = ClearHist(delete_counters_in_namespace(ns))
  /\ limits_for_namespace' = MapRemove(limits_for_namespace, ns)
  /\ call' = [op |-> "delete_limits", namespace |-> ns, ret |-> "Ok"]
  /\ UNCHANGED now

\* Faulty variant of within_limits: a live entry may be overdrawn by one.
within_limits_overdrawing(counter, delta, current_time) ==
  IF counter \in DOMAIN counters
  THEN IF is_expired(counters[counter], current_time)
       THEN TRUE
       ELSE counters[counter].value - delta >= -1
  ELSE TRUE

\* The value is_within_limits returns when the clock reads current_time.
within_limits(counter, delta, current_time) ==
  IF counter \in DOMAIN counters
  THEN IF is_expired(counters[counter], current_time)
       THEN TRUE
       ELSE counters[counter].value - delta >= 0
  ELSE TRUE

\* Faulty variant of is_within_limits: an expired entry is removed on lookup.
is_within_limits_purging(counter, delta) ==
  /\ Running
  /\ call' = [op |-> "is_within_limits", counter |-> counter, delta |-> delta,
              ret |-> IF within_limits(counter, delta, now)
                      THEN "Ok(true)" ELSE "Ok(false)"]
  /\ counters' = IF counter \in DOMAIN counters
                    /\ is_expired(counters[counter], now)
                 THEN MapRemove(counters, counter)
                 ELSE counters
  /\ UNCHANGED <<limits_for_namespace, now, hist>>

is_within_limits(counter, delta) ==
  /\ Running
  /\ call' = [op |-> "is_within_limits", counter |-> counter, delta |-> delta,
              ret |-> IF within_limits(counter, delta, now)
                      THEN "Ok(true)" ELSE "Ok(false)"]
  /\ UNCHANGED <<limits_for_namespace, counters, now, hist>>

\* Faulty variant of update_counter: an update of a live entry does not build
\* on the stored value, it stores max_value - delta as a first update does.
update_counter_overwriting(counter, delta) ==
  /\ Running
  /\ IF counter \in DOMAIN counters
     THEN IF is_expired(counters[counter], now)
          THEN \E t \in now .. MaxTime :
                 /\ counters' = MapInsert(counters, counter, new_entry(counter, delta, t))
                 /\ hist' = [hist EXCEPT ![counter] =
                               [init |-> TRUE, sum |-> delta,
                                expires_at |-> t + seconds(counter)]]
                 /\ now' = t
                 /\ call' = [op |-> "update_counter", counter |-> counter,
                             delta |-> delta, branch |-> "expired",
                             replaced |-> counters[counter].value, ret |-> "Ok"]
                 /\ UNCHANGED limits_for_namespace
          ELSE /\ counters[counter].value - delta >= -MaxOver
               /\ counters' = [counters EXCEPT ![counter].value =
                                 max_value(counter) - delta]
               /\ hist' = [hist EXCEPT ![counter].sum = @ + delta]
               /\ call' = [op |-> "update_counter", counter |-> counter,
                           delta |-> delta, branch |-> "live", ret |-> "Ok"]
               /\ UNCHANGED <<limits_for_namespace, now>>
     ELSE /\ counters' = MapInsert(counters, counter, new_entry(counter, delta, now))
          /\ hist' = [hist EXCEPT ![counter] =
                        [init |-> TRUE, sum |-> delta,
                         expires_at |-> now + seconds(counter)]]
          /\ limits_for_namespace' = add_counter_limit_association(counter)
          /\ call' = [op |-> "update_counter", counter |-> counter, delta |-> delta,
                      branch |-> "none",
                      ret |-> IF association_panics(counter) THEN "panic" ELSE "Ok"]
          /\ UNCHANGED now

update_counter(counter, delta) ==
  /\ Running
  /\ IF counter \in DOMAIN counters
     THEN IF is_expired(counters[counter], now)
          THEN \* the clock is read again for the new expiry
               \E t \in now .. MaxTime :
                 /\ counters' = MapInsert(counters, counter, new_entry(counter, delta, t))
                 /\ hist' = [hist EXCEPT ![counter] =
                               [init |-> TRUE, sum |-> delta,
                                expires_at |-> t + seconds(counter)]]
                 /\ now' = t
                 /\ call' = [op |-> "update_counter", counter |-> counter,
                             delta |-> delta, branch |-> "expired",
                             replaced |-> counters[counter].value, ret |-> "Ok"]
                 /\ UNCHANGED limits_for_namespace
          ELSE /\ counters[counter].value - delta >= -MaxOver
               /\ counters' = [counters EXCEPT ![counter] = decrement(@, delta)]
               /\ hist' = [hist EXCEPT ![counter].sum = @ + delta]
               /\ call' = [op |-> "update_counter", counter |-> counter,
                           delta |-> delta, branch |-> "live", ret |-> "Ok"]
               /\ UNCHANGED <<limits_for_namespace, now>>
     ELSE /\ counters' = MapInsert(counters, counter, new_entry(counter, delta, now))
          /\ hist' = [hist EXCEPT ![counter] =
                        [init |-> TRUE, sum |-> delta,
                         expires_at |-> now + seconds(counter)]]
          /\ limits_for_namespace' = add_counter_limit_association(counter)
          /\ call' = [op |-> "update_counter", counter |-> counter, delta |-> delta,
                      branch |-> "none",
                      ret |-> IF association_panics(counter) THEN "panic" ELSE "Ok"]
          /\ UNCHANGED now

\* get_counters reads the clock once for get_all's expiry filter (the value
\* now) and once more for every entry it returns; reads[c] is the instant the
\* clock returns for entry c, not before the filter's and as late as the clock
\* goes. expires_at - reads[c] is a subtraction of unsigned durations, which
\* panics when reads[c] is after expires_at.
remaining_ttl(entry, current_time) == entry.expires_at - current_time

ttl_panics(entry, current_time) == current_time > entry.expires_at

get_counters(ns) ==
  /\ Running
  /\ LET selected == get_counters_keys(ns, now)
     IN \E reads \in [selected -> now .. MaxTime] :
          LET failed == {c \in selected : ttl_panics(counters[c], reads[c])}
              last == IF failed = {}
                      THEN CHOOSE t \in {now} \cup {reads[c] : c \in selected} :
                             \A c \in selected : reads[c] <= t
                      ELSE CHOOSE t \in {reads[c] : c \in failed} :
                             \A c \in failed : t <= reads[c]
          IN /\ now' = last
             /\ call' = [op |-> "get_counters", namespace |-> ns, at |-> now,
                         counters |->
                           IF failed = {} THEN
                             {<<c, counters[c].value,
                                remaining_ttl(counters[c], reads[c])>> : c \in selected}
                           ELSE {},
                         ret |-> IF failed = {} THEN "Ok" ELSE "panic"]
  /\ UNCHANGED <<limits_for_namespace, counters, hist>>

\* The environment advances the injected clock.
Tick ==
  /\ Running
  /\ now < MaxTime
  /\ now' = now + 1
  /\ call' = [op |-> "tick", ret |-> "Ok"]
  /\ UNCHANGED <<limits_for_namespace, counters, hist>>

Init ==
  /\ limits_for_namespace = EmptyMap
  /\ counters = EmptyMap
  /\ now = 0
  /\ call = [op |-> "new", ret |-> "Ok"]
  /\ hist = [c \in Counters |-> NoHist]

AddLimit == \E l \in Limits : add_limit(l)
DeleteLimit == \E l \in Limits : delete_limit(l)
DeleteLimits == \E ns \in Namespaces : delete_limits(ns)
IsWithinLimits == \E c \in Requested, d \in QueryDeltas : is_within_limits(c, d)
UpdateCounter == \E c \in Requested, d \in Deltas : update_counter(c, d)

Next ==
  \/ AddLimit
  \/ DeleteLimit
  \/ DeleteLimits
  \/ IsWithinLimits
  \/ UpdateCounter
  \/ Tick

Spec == Init /\ [][Next]_vars

\* The store as its callers use it: a counter is updated only while its limit
\* is registered. The behaviours of SpecRegistered are behaviours of Spec.
UpdateRegisteredCounter ==
  \E c \in Requested, d \in Deltas :
    /\ limit(c) \in get_limits(namespace(c))
    /\ update_counter(c, d)

NextRegistered ==
  \/ AddLimit
  \/ DeleteLimit
  \/ DeleteLimits
  \/ IsWithinLimits
  \/ UpdateRegisteredCounter
  \/ Tick

SpecRegistered == Init /\ [][NextRegistered]_vars

\* The store with a counter of every limit in use (two limits of one
\* namespace, one of another) and no read-only call.
UpdateAnyCounter == \E c \in Counters, d \in Deltas : update_counter(c, d)

NextAllCounters ==
  \/ AddLimit
  \/ DeleteLimit
  \/ DeleteLimits
  \/ UpdateAnyCounter
  \/ Tick

SpecAllCounters == Init /\ [][NextAllCounters]_vars

\* The store with a counter of every limit in use and get_counters as its
\* only read-only call.
GetCounters == \E ns \in Namespaces : get_counters(ns)

NextCounters ==
  \/ AddLimit
  \/ DeleteLimits
  \/ UpdateAnyCounter
  \/ GetCounters
  \/ Tick

SpecCounters == Init /\ [][NextCounters]_vars

\* Concurrent callers of update_counter. update_counter takes &mut self, so
\* no two calls overlap: the callers' calls run one at a time, in any order.
\* The limits are registered before the callers start, the clock stands still
\* and nothing is deleted.
RegisterLimit == \E l \in Limits : counters = EmptyMap /\ add_limit(l)

ConcurrentUpdate ==
  \E c \in Counters, d \in Deltas :
    /\ limit(c) \in get_limits(namespace(c))
    /\ update_counter(c, d)

NextConcurrent ==
  \/ RegisterLimit
  \/ ConcurrentUpdate

SpecConcurrent == Init /\ [][NextConcurrent]_vars

\* Callers that update a counter only when is_within_limits admits the delta,
\* check and update being one step at one clock time, with 0 <= delta <=
\* max_value.
CheckedUpdate ==
  \E c \in Counters, d \in QueryDeltas :
    /\ d <= max_value(c)
    /\ within_limits(c, d, now)
    /\ update_counter(c, d)

NextChecked ==
  \/ AddLimit
  \/ DeleteLimit
  \/ DeleteLimits
  \/ CheckedUpdate
  \/ Tick

SpecChecked == Init /\ [][NextChecked]_vars

\* ------------------------------------------------------------ is_limited
\* The batch decision of the Redis backends (redis/mod.rs). Its i64 and u64
\* values are modelled with Bits bits in place of 64: the casts and the sums
\* wrap at 2^Bits as the code's do at 2^64.
Bits == 8

MaxI64 == 2^(Bits - 1) - 1
MinI64 == -(2^(Bits - 1))
MaxU64 == 2^Bits - 1

\* Option<T>: None is the empty sequence, Some(x) the sequence of x alone.
None == <<>>
Some(x) == <<x>>
unwrap_or(o, default) == IF o = None THEN default ELSE o[1]

\* Limits of the batches: one with a name, one without.
Named == [max_value |-> 2, seconds |-> 60, name |-> Some("named")]
Unnamed == [max_value |-> 1, seconds |-> 1, name |-> None]
BatchCounter(l) == [limit |-> l, remaining |-> None, expires_in |-> None]
Batches ==
  {<<>>, <<BatchCounter(Named)>>, <<BatchCounter(Unnamed)>>,
   <<BatchCounter(Named), BatchCounter(Unnamed)>>,
   <<BatchCounter(Unnamed), BatchCounter(Named)>>,
   <<BatchCounter(Unnamed), BatchCounter(Unnamed)>>}
BatchDeltas == {0, 1, MaxU64}
ScriptValues == {None, Some(-1), Some(0), Some(2), Some(MaxI64)}
ScriptResults(n) == UNION {[1 .. k -> ScriptValues] : k \in 0 .. (2 * n + 2)}

\* Duration: whole seconds and the milliseconds of the second begun.
from_millis(x) == [secs |-> x \div 1000, subsec_millis |-> x % 1000]
from_secs(x) == [secs |-> x, subsec_millis |-> 0]
window(counter) == from_secs(seconds(counter))

\* x as u64
as_u64(x) == x % (2^Bits)

\* script_res.chunks(2): the pairs, and whether the last chunk has one element
\* only, in which case val_ttl_pair[1] is out of bounds.
chunk_panics(script_res) == Len(script_res) % 2 = 1
counter_vals(script_res) ==
  [i \in 1 .. (Len(script_res) \div 2) |-> script_res[2 * i - 1]]
counter_ttls_msecs(script_res) ==
  [i \in 1 .. (Len(script_res) \div 2) |-> script_res[2 * i]]

\* (counter_vals[i].unwrap_or(0) as u64) + delta: the sum overflows u64 when
\* it reaches 2^Bits; a build with overflow checks panics then, one without
\* wraps.
sum_overflows(val, delta) == as_u64(unwrap_or(val, 0)) + delta >= 2^Bits
wrapping_sum(val, delta) == (as_u64(unwrap_or(val, 0)) + delta) % (2^Bits)

\* counter.max_value().checked_sub(sum)
remaining(counter, val, delta) ==
  IF wrapping_sum(val, delta) <= max_value(counter)
  THEN Some(max_value(counter) - wrapping_sum(val, delta))
  ELSE None

\* Faulty variant of expires_in: a TTL of 0 falls back to the window.
expires_in_positive_only(counter, ttl) ==
  IF ttl = None THEN window(counter)
  ELSE IF ttl[1] > 0 THEN from_millis(as_u64(ttl[1])) ELSE window(counter)

expires_in(counter, ttl) ==
  IF ttl = None THEN window(counter)
  ELSE IF ttl[1] >= 0 THEN from_millis(as_u64(ttl[1])) ELSE window(counter)

\* The loop over the counters, from index i on: cs are the counters as
\* updated so far, first_limited the outcome so far. It panics on an index
\* that counter_vals does not have and, with overflow checks, on a sum that
\* overflows.
RECURSIVE is_limited_loop(_, _, _, _, _, _, _)
is_limited_loop(i, cs, vals, ttls, delta, overflow_checks, first_limited) ==
  IF i > Len(cs) THEN [ret |-> "Ok", authorization |-> first_limited, counters |-> cs]
  ELSE IF i > Len(vals) \/ (overflow_checks /\ sum_overflows(vals[i], delta))
  THEN [ret |-> "panic", authorization |-> None, counters |-> cs]
  ELSE is_limited_loop(
         i + 1,
         [cs EXCEPT ![i] = [@ EXCEPT
            !.remaining = Some(unwrap_or(remaining(cs[i], vals[i], delta), 0)),
            !.expires_in = Some(expires_in(cs[i], ttls[i]))]],
         vals, ttls, delta, overflow_checks,
         IF first_limited = None /\ remaining(cs[i], vals[i], delta) = None
         THEN Some(cs[i].limit.name)
         ELSE first_limited)

\* The outcome of is_limited: ret is "Ok" when it returns, authorization then
\* None or Some of the limit name of Authorization::Limited, counters the
\* batch as the call leaves it.
is_limited_outcome(cs, delta, script_res, overflow_checks) ==
  IF chunk_panics(script_res)
  THEN [ret |-> "panic", authorization |-> None, counters |-> cs]
  ELSE is_limited_loop(1, cs, counter_vals(script_res),
                       counter_ttls_msecs(script_res), delta, overflow_checks, None)

is_limited ==
  /\ call.op = "is_limited_args"
  /\ \E overflow_checks \in BOOLEAN :
       LET out == is_limited_outcome(call.counters, call.delta, call.script_res,
                                     overflow_checks)
       IN call' = [op |-> "is_limited", counters |-> call.counters,
                   delta |-> call.delta, script_res |-> call.script_res,
                   ret |-> out.ret, authorization |-> out.authorization,
                   after |-> out.counters]
  /\ UNCHANGED <<limits_for_namespace, counters, now, hist>>

\* A call of is_limited with its arguments drawn from the batches, deltas and
\* script results above.
InitLimited ==
  /\ limits_for_namespace = EmptyMap
  /\ counters = EmptyMap
  /\ now = 0
  /\ hist = [c \in Counters |-> NoHist]
  /\ \E cs \in Batches, delta \in BatchDeltas :
       \E script_res \in ScriptResults(Len(cs)) :
         call = [op |-> "is_limited_args", counters |-> cs, delta |-> delta,
                 script_res |-> script_res, ret |-> "Ok"]

NextLimited == is_limited

SpecLimited == InitLimited /\ [][NextLimited]_vars

\* ---------------------------------------------------------------- claims

\* C1: is_within_limits on a counter that has no cache entry returns true
\* when delta <= max_value and false when delta > max_value.
C1_NoEntryWithinLimits ==
  (call.op = "is_within_limits" /\ call.counter \notin DOMAIN counters)
    => call.ret = IF call.delta <= max_value(call.counter)
                  THEN "Ok(true)" ELSE "Ok(false)"

\* C2: is_within_limits on a counter that has a cache entry returns true for
\* any delta when the clock is strictly after expires_at, and otherwise
\* returns true exactly when stored value - delta >= 0; an entry whose
\* expires_at equals the current time counts as live.
C2_EntryWithinLimits ==
  (call.op = "is_within_limits" /\ call.counter \in DOMAIN counters)
    => call.ret = IF now > counters[call.counter].expires_at
                  THEN "Ok(true)"
                  ELSE IF counters[call.counter].value - call.delta >= 0
                       THEN "Ok(true)" ELSE "Ok(false)"

\* is_within_limits has returned false for an entry that expires exactly now.
C2_Witness ==
  /\ call.op = "is_within_limits"
  /\ call.ret = "Ok(false)"
  /\ call.counter \in DOMAIN counters
  /\ counters[call.counter].expires_at = now

\* C3: for an entry created by update_counter and decremented in place by the
\* following update_counter calls made before it expires, the stored value is
\* max_value minus the sum of all deltas applied since (and including) the
\* creating call, with no floor, and expires_at is the one it was created with.
C3_ValueIsMaxMinusSum ==
  \A c \in DOMAIN counters :
    hist[c].init =>
      /\ counters[c].value = max_value(c) - hist[c].sum
      /\ counters[c].expires_at = hist[c].expires_at

\* An in-place decrement that follows earlier deltas has left a negative value.
C3_Witness ==
  /\ call.op = "update_counter"
  /\ call.branch = "live"
  /\ call.counter \in DOMAIN counters
  /\ hist[call.counter].init
  /\ hist[call.counter].sum > call.delta
  /\ counters[call.counter].value < 0

\* C4: once the clock is past an entry's expires_at, the next update_counter
\* sets the stored value to max_value - delta and expires_at to now + window,
\* whatever the stored value was before.
C4_ExpiredEntryIsReset ==
  [][(/\ call'.op = "update_counter"
      /\ call'.counter \in DOMAIN counters
      /\ now > counters[call'.counter].expires_at)
       => /\ call'.counter \in DOMAIN counters'
          /\ counters'[call'.counter] =
               [value |-> max_value(call'.counter) - call'.delta,
                expires_at |-> now' + seconds(call'.counter)]
          /\ hist'[call'.counter].sum = call'.delta]_vars

\* update_counter has reset an expired entry whose stored value was negative.
C4_Witness ==
  /\ call.op = "update_counter"
  /\ call.branch = "expired"
  /\ call.replaced < 0
  /\ counters[call.counter].value = max_value(call.counter) - call.delta
  /\ counters[call.counter].expires_at = now + seconds(call.counter)

\* C5: update_counter completes with Ok (no error, no panic) for every
\* counter in every reachable state.
C5_UpdateCounterNeverFails ==
  call.op = "update_counter" => call.ret = "Ok"

\* C6: after delete_limit(L), get_counters(L.namespace) returns no counter
\* whose limit is L and get_limits(L.namespace) does not contain L.
C6_DeleteLimitRemovesCounters ==
  call.op = "delete_limit" =>
    /\ \A c \in get_counters_keys(call.limit.namespace, now) : limit(c) # call.limit
    /\ call.limit \notin get_limits(call.limit.namespace)

\* C7: after delete_limits(N), get_limits(N) is empty and get_counters(N)
\* returns no counter.
C7_DeleteLimitsRemovesCounters ==
  call.op = "delete_limits" =>
    /\ get_limits(call.namespace) = {}
    /\ get_counters_keys(call.namespace, now) = {}

\* C8: delete_limit(L) leaves unchanged every cache entry of a counter whose
\* limit is not L, every other limit's registration and counter set in the
\* same namespace, and every other namespace; delete_limits(N) leaves the
\* limits and the counters of every other namespace unchanged.
C8_DeleteFrame ==
  [][/\ call'.op = "delete_limit" =>
          /\ \A c \in Counters :
               limit(c) # call'.limit =>
                 /\ (c \in DOMAIN counters) = (c \in DOMAIN counters')
                 /\ c \in DOMAIN counters => counters'[c] = counters[c]
          /\ DOMAIN counters' \subseteq DOMAIN counters
          /\ \A ns \in Namespaces \ {call'.limit.namespace} :
               /\ (ns \in DOMAIN limits_for_namespace)
                    = (ns \in DOMAIN limits_for_namespace')
               /\ ns \in DOMAIN limits_for_namespace
                    => limits_for_namespace'[ns] = limits_for_namespace[ns]
          /\ (call'.limit.namespace \in DOMAIN limits_for_namespace)
               = (call'.limit.namespace \in DOMAIN limits_for_namespace')
          /\ call'.limit.namespace \in DOMAIN limits_for_namespace =>
               LET before == limits_for_namespace[call'.limit.namespace]
                   after == limits_for_namespace'[call'.limit.namespace]
               IN /\ DOMAIN after = (DOMAIN before) \ {call'.limit}
                  /\ \A l \in DOMAIN after : after[l] = before[l]
     /\ call'.op = "delete_limits" =>
          /\ \A c \in Counters :
               namespace(c) # call'.namespace =>
                 /\ (c \in DOMAIN counters) = (c \in DOMAIN counters')
                 /\ c \in DOMAIN counters => counters'[c] = counters[c]
          /\ \A ns \in Namespaces \ {call'.namespace} :
               /\ get_limits(ns)' = get_limits(ns)
               /\ get_counters_keys(ns, now)' = get_counters_keys(ns, now)
               /\ (ns \in DOMAIN limits_for_namespace)
                    = (ns \in DOMAIN limits_for_namespace')
               /\ ns \in DOMAIN limits_for_namespace
                    => limits_for_namespace'[ns] = limits_for_namespace[ns]]_vars

\* delete_limit(L) has run and left another limit of L's namespace registered
\* with its counter, and a counter of another namespace, in place.
C8_Witness ==
  /\ call.op = "delete_limit"
  /\ call.limit \notin get_limits(call.limit.namespace)
  /\ \A c \in DOMAIN counters : limit(c) # call.limit
  /\ \E c \in DOMAIN counters :
       /\ namespace(c) = call.limit.namespace
       /\ limit(c) \in get_limits(namespace(c))
       /\ c \in limits_for_namespace[namespace(c)][limit(c)]
  /\ \E c \in DOMAIN counters : namespace(c) # call.limit.namespace

\* C9: every counter that has a live cache entry and whose limit L is
\* registered under namespace N is a member of limits_for_namespace[N][L].
C9_IndexInvariant ==
  \A c \in DOMAIN counters :
    (/\ ~(now > counters[c].expires_at)
     /\ namespace(c) \in DOMAIN limits_for_namespace
     /\ limit(c) \in DOMAIN limits_for_namespace[namespace(c)])
      => c \in limits_for_namespace[namespace(c)][limit(c)]

\* C10: is_within_limits leaves the counters cache and the namespace index
\* unchanged, also when the looked-up entry is expired.
C10_IsWithinLimitsReadOnly ==
  [][call'.op = "is_within_limits"
       => UNCHANGED <<counters, limits_for_namespace>>]_vars

\* is_within_limits has looked up an expired entry, which is still in the
\* cache.
C10_Witness ==
  /\ call.op = "is_within_limits"
  /\ call.counter \in DOMAIN counters
  /\ now > counters[call.counter].expires_at
  /\ call.ret = "Ok(true)"

\* C11: add_limit(L) returns Ok and leaves L registered with an empty set of
\* associated counters, whether or not L was registered before; it leaves
\* every cache entry (those of L's counters too) and every other limit's
\* registration and counter set unchanged.
C11_AddLimitFrame ==
  [][call'.op = "add_limit" =>
       LET l == call'.limit
           before == limits_for_namespace
           after == limits_for_namespace'
       IN /\ call'.ret = "Ok"
          /\ counters' = counters
          /\ l.namespace \in DOMAIN after
          /\ l \in DOMAIN after[l.namespace]
          /\ after[l.namespace][l] = {}
          /\ DOMAIN after = (DOMAIN before) \cup {l.namespace}
          /\ \A ns \in DOMAIN after :
               /\ DOMAIN after[ns] =
                    (IF ns \in DOMAIN before THEN DOMAIN before[ns] ELSE {})
                      \cup (IF ns = l.namespace THEN {l} ELSE {})
               /\ \A m \in DOMAIN after[ns] \ {l} : after[ns][m] = before[ns][m]]_vars

\* add_limit(L) has run on a limit whose counter has a cache entry: L is
\* registered with an empty set, the entry is still there, and another limit
\* of the namespace still has its counter.
C11_Witness ==
  /\ call.op = "add_limit"
  /\ Counter(call.limit) \in DOMAIN counters
  /\ limits_for_namespace[call.limit.namespace][call.limit] = {}
  /\ \E m \in DOMAIN limits_for_namespace[call.limit.namespace] :
       limits_for_namespace[call.limit.namespace][m] # {}

C19_GetCountersNeverFails ==
  call.op = "get_counters" =>
    /\ call.ret = "Ok"
    /\ \A e \in call.counters : e[3] >= 0

\* The arguments of the logged is_limited call: the stored value of counter i
\* (0 when absent) and its TTL, as the claims index them.
stored(i) == unwrap_or(call.script_res[2 * i - 1], 0)
ttl(i) == call.script_res[2 * i]
well_sized == Len(call.script_res) = 2 * Len(call.counters)

\* C13: for every batch, delta and correctly sized result list, is_limited
\* returns None exactly when stored_i + delta <= max_value_i for every counter
\* i, and otherwise Limited(name) with the optional limit name of the exceeded
\* counter of smallest index.
C13_IsLimitedOutcome ==
  (call.op = "is_limited" /\ well_sized /\ call.ret = "Ok") =>
    LET exceeded == {i \in 1 .. Len(call.counters) :
                       stored(i) + call.delta > max_value(call.counters[i])}
    IN call.authorization =
         IF exceeded = {} THEN None
         ELSE Some(call.counters[CHOOSE i \in exceeded :
                                   \A j \in exceeded : i <= j].limit.name)

\* C14: for every counter i of the batch, is_limited sets remaining to
\* max_value_i - (stored_i + delta) when stored_i + delta <= max_value_i and
\* to 0 otherwise, for every stored value of the signed range and every
\* unsigned delta, with no wrap-around and no overflow.
C14_IsLimitedRemaining ==
  (call.op = "is_limited" /\ well_sized) =>
    /\ call.ret = "Ok"
    /\ \A i \in 1 .. Len(call.counters) :
         call.after[i].remaining =
           Some(IF stored(i) + call.delta <= max_value(call.counters[i])
                THEN max_value(call.counters[i]) - (stored(i) + call.delta)
                ELSE 0)

\* C15: for every counter i of the batch, also after the first exceeded one,
\* is_limited sets expires_in to the TTL in milliseconds when the TTL is
\* present and >= 0 (0 included) and to the counter's window when the TTL is
\* absent or negative.
C15_IsLimitedExpiresIn ==
  (call.op = "is_limited" /\ well_sized /\ call.ret = "Ok") =>
    \A i \in 1 .. Len(call.counters) :
      call.after[i].expires_in =
        Some(IF ttl(i) # None /\ ttl(i)[1] >= 0
             THEN [secs |-> 0, subsec_millis |-> ttl(i)[1]]
             ELSE [secs |-> seconds(call.counters[i]), subsec_millis |-> 0])

\* is_limited has returned Limited for the first of two counters and has set
\* the second counter's expires_in to its TTL of 0 and the first's to its
\* window, the first's TTL being negative.
C15_Witness ==
  /\ call.op = "is_limited"
  /\ call.ret = "Ok"
  /\ Len(call.counters) = 2
  /\ well_sized
  /\ stored(1) + call.delta > max_value(call.counters[1])
  /\ call.authorization = Some(call.counters[1].limit.name)
  /\ ttl(1) = Some(-1)
  /\ call.after[1].expires_in = Some(window(call.counters[1]))
  /\ ttl(2) = Some(0)
  /\ call.after[2].expires_in = Some(from_millis(0))

\* C16: when the result list's length is not twice the number of counters
\* (shorter, longer or odd), is_limited does not return normally.
C16_IsLimitedRejectsMismatch ==
  (call.op = "is_limited" /\ ~well_sized) => call.ret # "Ok"

\* C20: in every state reachable by add_limit, delete_limit, delete_limits,
\* update_counter and clock advances, every counter stored in
\* limits_for_namespace[N][L] has limit L and namespace N, L's own namespace
\* is N, and the counter has an entry, live or expired, in the counters cache.
C20_IndexSound ==
  \A ns \in DOMAIN limits_for_namespace :
    \A l \in DOMAIN limits_for_namespace[ns] :
      /\ l.namespace = ns
      /\ \A c \in limits_for_namespace[ns][l] :
           /\ limit(c) = l
           /\ namespace(c) = ns
           /\ c \in DOMAIN counters

\* Two limits of one namespace have each their counter in the index, one of
\* the entries being expired, after a limit was deleted.
C20_Witness ==
  /\ call.op = "delete_limit"
  /\ \E ns \in DOMAIN limits_for_namespace :
       \E l \in DOMAIN limits_for_namespace[ns] :
         \E c \in limits_for_namespace[ns][l] : now > counters[c].expires_at
  /\ \E ns \in DOMAIN limits_for_namespace :
       \E l, m \in DOMAIN limits_for_namespace[ns] :
         l # m /\ limits_for_namespace[ns][l] # {} /\ limits_for_namespace[ns][m] # {}

\* C17: for any interleaving of the update_counter calls of concurrent
\* callers on one counter, with no expiry elapsing, no update is lost: the
\* stored value is max_value minus the sum of all the deltas, exactly the
\* call that finds no entry initializes it, and the counter is in its limit's
\* index set (a set: exactly once).
C17_NoLostUpdate ==
  [][call'.op = "update_counter" =>
       LET c == call'.counter
       IN /\ call'.ret = "Ok"
          /\ (call'.branch = "none") = (c \notin DOMAIN counters)
          /\ (call'.branch = "live") = (c \in DOMAIN counters)
          /\ c \in DOMAIN counters =>
               /\ counters'[c].value = counters[c].value - call'.delta
               /\ counters'[c].expires_at = counters[c].expires_at
          /\ counters'[c].value = max_value(c) - hist'[c].sum
          /\ hist'[c].sum =
               (IF c \in DOMAIN counters THEN hist[c].sum ELSE 0) + call'.delta
          /\ c \in limits_for_namespace'[namespace(c)][limit(c)]
          /\ \A k \in DOMAIN counters \ {c} :
               k \in DOMAIN counters' /\ counters'[k] = counters[k]]_vars

\* Several update_counter calls have run on one counter, the last one on
\* the live entry the first one created: the value is max_value minus the sum
\* of their deltas and the counter is in its limit's set.
C17_Witness ==
  /\ call.op = "update_counter"
  /\ call.branch = "live"
  /\ hist[call.counter].sum > MaxDelta
  /\ counters[call.counter].value = max_value(call.counter) - hist[call.counter].sum
  /\ call.counter \in limits_for_namespace[namespace(call.counter)][limit(call.counter)]

\* C18: when every update_counter(c, d) runs only in a state where
\* is_within_limits(c, d) is true at the same clock time and 0 <= d <=
\* max_value, the stored value of every live entry is >= 0 in every reachable
\* state.
C18_NeverOverdrawn ==
  \A c \in DOMAIN counters :
    ~is_expired(counters[c], now) => counters[c].value >= 0

\* A checked update has taken a live entry down to exactly 0.
C18_Witness ==
  /\ call.op = "update_counter"
  /\ call.branch = "live"
  /\ call.delta > 0
  /\ ~is_expired(counters[call.counter], now)
  /\ counters[call.counter].value = 0

====
